---- MODULE Spec2Model ----
(***************************************************************************)
(* Model of chr4/migrate: the orchestrator operations of migrate/migrate.go *)
(* (Up, Down, Redo, Reset, Migrate, Version, Graceful, NonGraceful) and the *)
(* postgres driver of driver/postgres/postgres.go (Migrate, Version).       *)
(*                                                                         *)
(* The database is the set of committed rows of schema_migrations plus the  *)
(* set of versions whose Up script effect is committed.  Driver.Migrate is  *)
(* split at the one point where the process can be interrupted from the     *)
(* outside: after the statements of the transaction were sent and before    *)
(* the transaction is ended.                                                *)
(***************************************************************************)
EXTENDS Integers, Sequences, FiniteSets, TLC

\* ---------------------------------------------------------------- bounds
MaxVersion == 3
MaxN == 3
MaxConns == 1
MaxLeak == 1
ScriptLen == 2

Versions == 1..MaxVersion

\* Per version the loader found: nothing, an Up file only, or an Up/Down pair.
Kinds == {"none", "up", "pair"}

Up_ == "up"
Down_ == "down"
Other_ == "other"

Rec(v, d) == [version |-> v, direction |-> d]

AllRecords == {Rec(v, d) : v \in Versions, d \in {Up_, Down_, Other_}}

Errors ==
  {"errNew", "errRead", "errVersion", "errBegin", "errMarker", "errContent",
   "errExec", "errCommit", "errWrite"}

IsErr(e) == e \in Errors

\* ---------------------------------------------------------------- helpers
SetMax(S) == CHOOSE m \in S : \A x \in S : x <= m
SetMin(S) == CHOOSE m \in S : \A x \in S : m <= x

RECURSIVE Ascending(_)
Ascending(S) ==
  IF S = {} THEN <<>> ELSE <<SetMin(S)>> \o Ascending(S \ {SetMin(S)})

RECURSIVE Descending(_)
Descending(S) ==
  IF S = {} THEN <<>> ELSE <<SetMax(S)>> \o Descending(S \ {SetMax(S)})

Take(s, k) == SubSeq(s, 1, IF k < Len(s) THEN k ELSE Len(s))

\* ---------------------------------------------------------------- driver
\* Driver.Version: highest row of schema_migrations, 0 when there is none.
Version_Lowest(rs) == IF rs = {} THEN 0 ELSE SetMin(rs)

Version(rs) == IF rs = {} THEN 0 ELSE SetMax(rs)

\* The INSERT / DELETE on schema_migrations inside the transaction.  The
\* INSERT fails on a primary key that is already present; a DELETE that
\* matches no row is not an error.  flaky is a backend failure of the
\* statement itself.
MarkerFails(rec, rs, flaky) ==
  CASE rec.direction = Up_ -> flaky \/ rec.version \in rs
    [] rec.direction = Down_ -> flaky
    [] OTHER -> FALSE

MarkerEffect_DownKeepsRow(rec, rs) ==
  CASE rec.direction = Up_ -> rs \cup {rec.version}
    [] OTHER -> rs

MarkerEffect(rec, rs) ==
  CASE rec.direction = Up_ -> rs \cup {rec.version}
    [] rec.direction = Down_ -> rs \ {rec.version}
    [] OTHER -> rs

\* What the script does to the schema once its transaction commits.
ScriptEffect(rec, sc) ==
  CASE rec.direction = Up_ -> sc \cup {rec.version}
    [] rec.direction = Down_ -> sc \ {rec.version}
    [] OTHER -> sc

ExecOutcomes == {"ok", "pq", "nonpq"}

\* pqErr.Position: a string that strconv.Atoi parses to value, or does not.
Pos(p, v) == [parses |-> p, value |-> v]

NoPos == Pos(FALSE, 0)

Positions == {NoPos} \cup {Pos(TRUE, v) : v \in {0 - 1, 0, 1, ScriptLen + 1}}

\* The message built for a failed script: with line, column and context when
\* Atoi succeeds and offset >= 0, the plain severity/code/message otherwise.
DecodedAs(pos) ==
  IF pos.parses /\ pos.value >= 0 THEN "positional" ELSE "plain"

\* offset-1, which is handed to file.LineColumnFromOffset, is an index of the
\* script's content.
OffsetInScript(pos) ==
  pos.parses /\ pos.value - 1 >= 0 /\ pos.value - 1 < ScriptLen

\* How Driver.Migrate ends the transaction it began and what it returns:
\*   commit   - tx.Commit(), returns its error
\*   rollback - tx.Rollback(), returns err
\*   leak     - returns err, transaction neither committed nor rolled back
\*   panic    - the type assertion err.(*pq.Error) fails
TxOutcome_CommitOnExecError(markerFails, readOk, ex) ==
  IF markerFails THEN [fin |-> "rollback", ret |-> "errMarker", ran |-> FALSE]
  ELSE IF ~readOk THEN [fin |-> "leak", ret |-> "errContent", ran |-> FALSE]
  ELSE IF ex = "pq" THEN [fin |-> "commit", ret |-> "errExec", ran |-> TRUE]
  ELSE IF ex = "nonpq" THEN [fin |-> "panic", ret |-> "panic", ran |-> FALSE]
  ELSE [fin |-> "commit", ret |-> "nil", ran |-> TRUE]

TxOutcome(markerFails, readOk, ex) ==
  IF markerFails THEN [fin |-> "rollback", ret |-> "errMarker", ran |-> FALSE]
  ELSE IF ~readOk THEN [fin |-> "leak", ret |-> "errContent", ran |-> FALSE]
  ELSE IF ex = "pq" THEN [fin |-> "rollback", ret |-> "errExec", ran |-> FALSE]
  ELSE IF ex = "nonpq" THEN [fin |-> "panic", ret |-> "panic", ran |-> FALSE]
  ELSE [fin |-> "commit", ret |-> "nil", ran |-> TRUE]

\* ---------------------------------------------------------------- sequencer
UpVersions(fs) == {v \in Versions : fs[v] \in {"up", "pair"}}
DownVersions(fs) == {v \in Versions : fs[v] = "pair"}

Records(vs, d) == [i \in 1..Len(vs) |-> Rec(vs[i], d)]

ToLastFrom(fs, v) ==
  Records(Ascending({x \in UpVersions(fs) : x > v}), Up_)

ToFirstFrom(fs, v) ==
  Records(Descending({x \in DownVersions(fs) : x <= v}), Down_)

From(fs, v, n) ==
  IF n > 0 THEN Take(ToLastFrom(fs, v), n)
  ELSE IF n < 0 THEN Take(ToFirstFrom(fs, v), 0 - n)
  ELSE <<>>

\* ---------------------------------------------------------------- state
VARIABLES
  files,      \* the migration collection the loader yields: Versions -> Kinds
  rows,       \* committed rows of schema_migrations
  schema,     \* versions whose Up script effect is committed
  interrupts, \* the package variable interrupts
  pc,         \* idle | run | tx | next | dead
  top,        \* the operation the host called
  op,         \* the function whose loop is running: Up | Down | Migrate | Direct
  relN,       \* relativeN of the running Migrate
  phase,      \* 1, or 2 in the second call of Redo / Reset
  queue,      \* records of applyMigrationFiles not yet handed to d.Migrate
  plan,       \* every sequence computed since the host's call, concatenated
  applied,    \* records whose d.Migrate returned nil since the host's call
  pre,        \* rows when the host called
  result,     \* what the host's call returned
  innerRes,   \* what the first and second inner call returned
  cur,        \* how the open transaction of Driver.Migrate will end
  lastApply,  \* the latest Driver.Migrate call
  openTx,     \* transactions begun and neither committed nor rolled back
  openConns,  \* drivers initialised and not closed
  prev,       \* the host's previous call
  initRes     \* what initialising the driver returned in the latest call

vars ==
  <<files, rows, schema, interrupts, pc, top, op, relN, phase, queue, plan,
    applied, pre, result, innerRes, cur, lastApply, openTx, openConns, prev,
    initRes>>

NoRec == [version |-> 0, direction |-> "none"]

NoApply ==
  [rec |-> NoRec, ret |-> "none", rowsBefore |-> {}, schemaBefore |-> {},
   ran |-> FALSE, rbErr |-> FALSE, msg |-> "none", offsetOk |-> FALSE]

NoTx == [fin |-> "none", ret |-> "none", ran |-> FALSE]

NoInner == <<"none", "none">>

\* What the host's previous call was, as far as a later call is concerned.
PrevOf(t, r, a) ==
  IF t = "Up" /\ r = "nil"
  THEN (IF a = <<>> THEN "upNoop" ELSE "upApplied")
  ELSE "other"

\* Collections numbered 1..k, as Create numbers them, each version Up-only or
\* a pair.
Collections ==
  {fs \in [Versions -> Kinds] :
     \A v \in Versions : fs[v] = "none" => \A w \in Versions : w > v => fs[w] = "none"}

\* Any collection the data model allows: the versions are any positive
\* integers, so there may be numbers without a record between two versions.
SparseCollections == [Versions -> Kinds]

\* A new process on an empty store, with collection fs in the directory.
InitOf(fs) ==
  /\ files = fs
  /\ rows = {}
  /\ schema = {}
  /\ interrupts = TRUE
  /\ pc = "idle"
  /\ top = "none"
  /\ op = "none"
  /\ relN = 0
  /\ phase = 1
  /\ queue = <<>>
  /\ plan = <<>>
  /\ applied = <<>>
  /\ pre = {}
  /\ result = "none"
  /\ innerRes = NoInner
  /\ cur = NoTx
  /\ lastApply = NoApply
  /\ openTx = 0
  /\ openConns = 0
  /\ prev = "other"
  /\ initRes = "none"

Init == \E fs \in Collections : InitOf(fs)

\* ---------------------------------------------------------------- orchestrator
InitOutcomes == {"ok", "errNew", "errRead", "errVersion"}

\* Up and Migrate run "defer d.Close()" right after the helper returns, before
\* they look at err; Down has no Close at all.
DefersClose(o) == o \in {"Up", "Migrate"}

\* The loop's "if err != nil { return }" (Up, Migrate) / "break" (Down).
Stops_Never(e) == FALSE

Stops(e) == e # "nil"

\* Redo and Reset call their second function only when the first returned nil.
Continues_IgnoringError(t, ph, e) == t \in {"Redo", "Reset"} /\ ph = 1

Continues_ResetIgnoringError(t, ph, e) ==
  ph = 1 /\ (t = "Reset" \/ (t = "Redo" /\ e = "nil"))

Continues(t, ph, e) == t \in {"Redo", "Reset"} /\ ph = 1 /\ e = "nil"

\* Migrate's sequence: files.From, applied when non-empty and relativeN != 0.
MigrateFiles_ZeroMeansAll(fs, v, n) ==
  IF n = 0 THEN ToLastFrom(fs, v) ELSE From(fs, v, n)

MigrateFiles_IgnoresCount(fs, v, n) ==
  IF n > 0 THEN ToLastFrom(fs, v)
  ELSE IF n < 0 THEN ToFirstFrom(fs, v)
  ELSE <<>>

MigrateFiles_NoneWhenShort(fs, v, n) ==
  LET applyMigrationFiles == From(fs, v, n) IN
    IF n # 0 /\ Len(applyMigrationFiles) = (IF n > 0 THEN n ELSE 0 - n)
    THEN applyMigrationFiles ELSE <<>>

MigrateFiles(fs, v, n) ==
  LET applyMigrationFiles == From(fs, v, n) IN
    IF Len(applyMigrationFiles) > 0 /\ n # 0 THEN applyMigrationFiles ELSE <<>>

\* Up's sequence.
UpFiles_FromZero(fs, v) == ToLastFrom(fs, 0)

UpFiles_SkipsNext(fs, v) == ToLastFrom(fs, v + 1)

UpFiles(fs, v) == ToLastFrom(fs, v)

\* Down's sequence.
DownFiles_SkipsCurrent(fs, v) == ToFirstFrom(fs, v - 1)

DownFiles(fs, v) == ToFirstFrom(fs, v)

ApplySequence(o, fs, v, n) ==
  CASE o = "Up" -> UpFiles(fs, v)
    [] o = "Down" -> DownFiles(fs, v)
    [] OTHER -> MigrateFiles(fs, v, n)

\* The process ends: a panic, or a signal nobody subscribed to.  The server
\* aborts the transactions of the connections it loses.
Dies(how) ==
  /\ pc' = "dead"
  /\ result' = how
  /\ openTx' = 0
  /\ openConns' = 0
  /\ cur' = NoTx
  /\ queue' = <<>>

\* Function o returns e: its deferred Close runs, and the caller (the host,
\* Redo or Reset) goes on.
Return(t, o, ph, ir, conns, e) ==
  /\ innerRes' = [ir EXCEPT ![ph] = e]
  /\ openConns' = IF DefersClose(o) THEN conns - 1 ELSE conns
  /\ IF Continues(t, ph, e)
     THEN pc' = "next" /\ result' = "running"
     ELSE pc' = "idle" /\ result' = e

\* Body of Up / Down / Migrate from its entry to its first d.Migrate call or
\* its return: initDriverAndReadMigrationFilesAndGetVersion, the deferred
\* Close, the sequence.
Call(t, o, n, ph, ir, pl) ==
  \E io \in InitOutcomes :
    /\ initRes' = io
    /\ top' = t
    /\ op' = o
    /\ relN' = n
    /\ phase' = ph
    /\ UNCHANGED <<files, rows, schema, interrupts>>
    /\ IF io # "ok"
       THEN /\ plan' = pl
            /\ IF DefersClose(o)
               THEN /\ Dies("panic")
                    /\ innerRes' = [ir EXCEPT ![ph] = "panic"]
               ELSE /\ Return(t, o, ph, ir, openConns, io)
                    /\ UNCHANGED <<openTx, cur>>
                    /\ queue' = <<>>
       ELSE LET s == ApplySequence(o, files, Version(rows), n) IN
            /\ plan' = pl \o s
            /\ queue' = s
            /\ UNCHANGED <<openTx, cur>>
            /\ IF s = <<>>
               THEN Return(t, o, ph, ir, openConns + 1, "nil")
               ELSE /\ pc' = "run"
                    /\ result' = "running"
                    /\ innerRes' = ir
                    /\ openConns' = openConns + 1

\* The host calls an operation that leaves k connections open when it
\* returns; it is called while the connections left open stay within MaxConns.
\* What the previous call was is recorded for a call of Up.
Start(k, t) ==
  /\ pc = "idle"
  /\ openConns + k <= MaxConns
  /\ prev' = IF t = "Up" THEN PrevOf(top, result, applied) ELSE "other"
  /\ pre' = rows
  /\ applied' = <<>>
  /\ lastApply' = NoApply

Up == Start(0, "Up") /\ Call("Up", "Up", 0, 1, NoInner, <<>>)

Down == Start(1, "Down") /\ Call("Down", "Down", 0, 1, NoInner, <<>>)

Migrate ==
  \E n \in (0 - MaxN)..MaxN :
    Start(0, "Migrate") /\ Call("Migrate", "Migrate", n, 1, NoInner, <<>>)

Redo == Start(0, "Redo") /\ Call("Redo", "Migrate", 0 - 1, 1, NoInner, <<>>)

RedoReapply ==
  /\ pc = "next"
  /\ top = "Redo"
  /\ UNCHANGED <<prev, pre, applied, lastApply>>
  /\ Call("Redo", "Migrate", 1, 2, innerRes, plan)

Reset == Start(1, "Reset") /\ Call("Reset", "Down", 0, 1, NoInner, <<>>)

ResetUp ==
  /\ pc = "next"
  /\ top = "Reset"
  /\ UNCHANGED <<prev, pre, applied, lastApply>>
  /\ Call("Reset", "Up", 0, 2, innerRes, plan)

\* migrate.Version: driver.New, then d.Version(); the driver is not closed.
VersionOp ==
  /\ Start(1, "Version")
  /\ \E io \in {"ok", "errNew", "errVersion"} :
       /\ result' = IF io = "ok" THEN "nil" ELSE io
       /\ initRes' = io
       /\ openConns' = IF io = "errNew" THEN openConns ELSE openConns + 1
  /\ top' = "Version"
  /\ op' = "none"
  /\ relN' = 0
  /\ phase' = 1
  /\ queue' = <<>>
  /\ plan' = <<>>
  /\ innerRes' = NoInner
  /\ pc' = "idle"
  /\ UNCHANGED <<files, rows, schema, interrupts, cur, openTx>>

\* Create's exits: driver.New fails; ReadMigrationFiles fails; writing the Up
\* file fails; writing the Down file fails; both files written.
CreateOutcomes == {"ok", "errNew", "errRead", "errWriteUp", "errWriteDown"}

\* Version of the collection's last record, 0 for the empty collection.
LastVersion(fs) == SetMax({0} \cup {v \in Versions : fs[v] # "none"})

\* The migrations directory after Create: the Up file of version last + 1 is
\* written first, then the Down file.
Created(fs, o) ==
  LET version == LastVersion(fs) + 1 IN
    IF o = "ok" THEN [fs EXCEPT ![version] = "pair"]
    ELSE IF o = "errWriteDown" THEN [fs EXCEPT ![version] = "up"]
    ELSE fs

\* migrate.Create: driver.New, read the collection, write the two empty files
\* of version last + 1; the driver is not closed on any path.  Called while
\* the new version is within Versions.
Create ==
  /\ Start(1, "Create")
  /\ LastVersion(files) < MaxVersion
  /\ \E o \in CreateOutcomes :
       /\ files' = Created(files, o)
       /\ result' = CASE o = "ok" -> "nil"
                      [] o \in {"errNew", "errRead"} -> o
                      [] OTHER -> "errWrite"
       /\ initRes' = IF o \in {"errNew", "errRead"} THEN o ELSE "ok"
       /\ openConns' = IF o = "errNew" THEN openConns ELSE openConns + 1
  /\ top' = "Create"
  /\ op' = "none"
  /\ relN' = 0
  /\ phase' = 1
  /\ queue' = <<>>
  /\ plan' = <<>>
  /\ innerRes' = NoInner
  /\ pc' = "idle"
  /\ UNCHANGED <<rows, schema, interrupts, cur, openTx>>

Graceful ==
  /\ pc = "idle"
  /\ interrupts' = TRUE
  /\ UNCHANGED <<files, rows, schema, pc, top, op, relN, phase, queue, plan,
                 applied, pre, result, innerRes, cur, lastApply, openTx,
                 openConns, prev, initRes>>

NonGraceful ==
  /\ pc = "idle"
  /\ interrupts' = FALSE
  /\ UNCHANGED <<files, rows, schema, pc, top, op, relN, phase, queue, plan,
                 applied, pre, result, innerRes, cur, lastApply, openTx,
                 openConns, prev, initRes>>

\* ---------------------------------------------------------------- apply loop
\* One turn of "for _, f := range applyMigrationFiles" after d.Migrate(f)
\* returned e; the function returns the last err when the loop ends.
AfterApply(rec, e) ==
  /\ applied' = IF e = "nil" THEN Append(applied, rec) ELSE applied
  /\ IF Stops(e) \/ Tail(queue) = <<>>
     THEN /\ queue' = <<>>
          /\ Return(top, op, phase, innerRes, openConns, e)
     ELSE /\ queue' = Tail(queue)
          /\ pc' = "run"
          /\ UNCHANGED <<result, innerRes, openConns>>

\* What the backend and the file system do during one Driver.Migrate: whether
\* Begin succeeds, whether the marker statement fails for a reason of the
\* backend, whether ReadContent succeeds, how the script ends.  One input per
\* path: what comes after the first failure is never looked at.
\* A script that fails with a *pq.Error carries a Position.
ApplyInput(b, f, r, x, p) ==
  [beginOk |-> b, flaky |-> f, readOk |-> r, ex |-> x, pos |-> p]

ApplyInputs ==
  {ApplyInput(FALSE, FALSE, TRUE, "ok", NoPos),
   ApplyInput(TRUE, TRUE, TRUE, "ok", NoPos),
   ApplyInput(TRUE, FALSE, FALSE, "ok", NoPos)}
  \cup {ApplyInput(TRUE, FALSE, TRUE, x, NoPos) : x \in {"ok", "nonpq"}}
  \cup {ApplyInput(TRUE, FALSE, TRUE, "pq", p) : p \in Positions}

\* Driver.Migrate up to the end of tx.Exec(string(f.Content)): Begin, the
\* marker statement, ReadContent, the script.  A failed Begin returns at once.
\* How the error was decoded is recorded for a caller of Driver.Migrate
\* itself; the orchestrator passes the error on without reading it.
ApplyStart ==
  /\ pc = "run"
  /\ \E in \in ApplyInputs :
       LET rec == Head(queue)
           beginOk == in.beginOk
           flaky == in.flaky
           readOk == in.readOk
           ex == in.ex
           out == TxOutcome(MarkerFails(rec, rows, flaky), readOk, ex)
           call == [rec |-> rec, ret |-> "running", rowsBefore |-> rows,
                    schemaBefore |-> schema, ran |-> FALSE, rbErr |-> FALSE,
                    msg |-> "none", offsetOk |-> FALSE]
       IN
       /\ ~readOk => openTx < MaxLeak
       /\ IF ~beginOk
          THEN /\ lastApply' = [call EXCEPT !.ret = "errBegin"]
               /\ UNCHANGED <<cur, openTx>>
               /\ AfterApply(rec, "errBegin")
          ELSE /\ lastApply' =
                    IF out.ret = "errExec" /\ top = "Direct"
                    THEN [call EXCEPT !.msg = DecodedAs(in.pos),
                                      !.offsetOk = OffsetInScript(in.pos)]
                    ELSE call
               /\ cur' = out
               /\ openTx' = openTx + 1
               /\ pc' = "tx"
               /\ UNCHANGED <<queue, applied, result, innerRes, openConns>>
  /\ UNCHANGED <<files, rows, schema, interrupts, top, op, relN, phase, plan,
                 pre, prev, initRes>>

\* Driver.Migrate from there to its return: Commit, Rollback, neither (the
\* ReadContent error path), or the panic of the type assertion.  endOk is
\* whether the Commit or Rollback itself succeeds; Rollback's error is dropped,
\* and that it was is recorded for a caller of Driver.Migrate itself.
ApplyFinish ==
  /\ pc = "tx"
  /\ \E endOk \in BOOLEAN :
       LET rec == lastApply.rec
           committed == cur.fin = "commit" /\ endOk
           e == IF cur.fin = "commit" /\ ~endOk THEN "errCommit" ELSE cur.ret
       IN
       IF cur.fin = "panic"
       THEN /\ Dies("panic")
            /\ lastApply' = [lastApply EXCEPT !.ret = "panic"]
            /\ innerRes' = [innerRes EXCEPT ![phase] = "panic"]
            /\ UNCHANGED <<rows, schema, applied>>
       ELSE /\ rows' = IF committed THEN MarkerEffect(rec, rows) ELSE rows
            /\ schema' = IF committed /\ cur.ran
                         THEN ScriptEffect(rec, schema) ELSE schema
            /\ openTx' = IF cur.fin = "leak" THEN openTx ELSE openTx - 1
            /\ cur' = NoTx
            /\ lastApply' = [lastApply EXCEPT
                               !.ret = e,
                               !.ran = committed /\ cur.ran,
                               !.rbErr = top = "Direct" /\ cur.fin = "rollback"
                                         /\ ~endOk]
            /\ AfterApply(rec, e)
  /\ UNCHANGED <<files, interrupts, top, op, relN, phase, plan, pre, prev,
                 initRes>>

\* An interrupt signal while an operation runs.  No operation calls
\* handleInterrupts, so signal.Notify is never in effect and the runtime's
\* default applies whatever interrupts holds: the process ends at once.
Signal ==
  /\ pc \in {"run", "tx", "next"}
  /\ Dies("killed")
  /\ innerRes' = [innerRes EXCEPT ![phase] = "killed"]
  /\ UNCHANGED <<files, rows, schema, interrupts, top, op, relN, phase, plan,
                 applied, pre, lastApply, prev, initRes>>

\* The host process ends and a new one starts: connections and transactions
\* of the old one are gone, interrupts has its initial value again, and
\* nothing is left of what the old process called or was returned.  The
\* database stays.
NewProcess ==
  /\ pc \in {"idle", "dead"}
  /\ pc' = "idle"
  /\ openConns' = 0
  /\ openTx' = 0
  /\ interrupts' = TRUE
  /\ top' = "none"
  /\ op' = "none"
  /\ relN' = 0
  /\ phase' = 1
  /\ plan' = <<>>
  /\ applied' = <<>>
  /\ pre' = {}
  /\ result' = "none"
  /\ innerRes' = NoInner
  /\ lastApply' = NoApply
  /\ prev' = "other"
  /\ initRes' = "none"
  /\ UNCHANGED <<files, rows, schema, queue, cur>>

\* A caller that holds an initialised driver calls Driver.Migrate itself, as
\* TestMigrate does, with any record, or with two records one after the
\* other, going on to the second when the first returned nil.
DirectCalls ==
  {<<r>> : r \in AllRecords} \cup {<<r, q>> : r \in AllRecords, q \in AllRecords}

DriverMigrate ==
  /\ Start(0, "Direct")
  /\ \E calls \in DirectCalls :
       /\ queue' = calls
       /\ plan' = calls
  /\ initRes' = "ok"
  /\ top' = "Direct"
  /\ op' = "Direct"
  /\ relN' = 0
  /\ phase' = 1
  /\ pc' = "run"
  /\ result' = "running"
  /\ innerRes' = NoInner
  /\ UNCHANGED <<files, rows, schema, interrupts, cur, openTx, openConns>>

Next ==
  \/ Up
  \/ Down
  \/ Migrate
  \/ Redo
  \/ RedoReapply
  \/ Reset
  \/ ResetUp
  \/ VersionOp
  \/ Create
  \/ Graceful
  \/ NonGraceful
  \/ ApplyStart
  \/ ApplyFinish
  \/ Signal
  \/ NewProcess

Spec == Init /\ [][Next]_vars

\* Driver.Migrate called on its own, with any record in any store state.
DriverNext ==
  \/ DriverMigrate
  \/ ApplyStart
  \/ ApplyFinish
  \/ Signal
  \/ NewProcess

\* Driver.Migrate does not look at the collection.
DriverInit == Init /\ files = [v \in Versions |-> "none"]

DriverSpec == DriverInit /\ [][DriverNext]_vars

\* Up and Migrate (and Create) called over any collection of the data model.
SequenceNext ==
  \/ Up
  \/ Migrate
  \/ Create
  \/ ApplyStart
  \/ ApplyFinish
  \/ Signal
  \/ NewProcess

SequenceInit == \E fs \in SparseCollections : InitOf(fs)

SequenceSpec == SequenceInit /\ [][SequenceNext]_vars

TypeOK ==
  /\ rows \subseteq Versions
  /\ schema \subseteq Versions
  /\ pc \in {"idle", "run", "tx", "next", "dead"}
  /\ openTx \in 0..(MaxLeak + 1)
  /\ openConns \in 0..(MaxConns + 1)
  /\ (pc = "tx") = (cur # NoTx)

\* ---------------------------------------------------------------- properties
Crashed == result \in {"panic", "killed"}

\* The marker rows after the records of seq were committed in order.
RECURSIVE Effect(_, _)
Effect(rs, seq) ==
  IF seq = <<>> THEN rs ELSE Effect(MarkerEffect(Head(seq), rs), Tail(seq))

\* The latest Driver.Migrate call has returned (or panicked).
ApplyReturned == lastApply.ret \notin {"none", "running"}

\* The marker change of the latest Driver.Migrate call is committed.
MarkerCommitted ==
  CASE lastApply.rec.direction = Up_ ->
         lastApply.rec.version \in rows \ lastApply.rowsBefore
    [] lastApply.rec.direction = Down_ ->
         lastApply.rec.version \in lastApply.rowsBefore \ rows
    [] OTHER -> FALSE

\* C1: when Driver.Migrate returns an error, the marker rows (hence
\* CurrentVersion) and the schema are what they were before the call, and the
\* script's effect is not committed.
C1_Atomicity ==
  IsErr(lastApply.ret) =>
    /\ rows = lastApply.rowsBefore
    /\ Version(rows) = Version(lastApply.rowsBefore)
    /\ schema = lastApply.schemaBefore
    /\ ~lastApply.ran

\* C1 witness: a Down record of an applied version failed in its script and
\* the row is still there.
C1_Witness ==
  /\ lastApply.ret = "errExec"
  /\ lastApply.rec.direction = Down_
  /\ lastApply.rec.version \in rows
  /\ pc = "idle"

\* C2: after every Driver.Migrate call, the script's schema effect is
\* committed exactly when the record's marker change (row inserted for Up,
\* row deleted for Down) is committed.
C2_MarkerSchemaConsistent ==
  ApplyReturned => (lastApply.ran <=> MarkerCommitted)

\* C3: when the k-th Apply of Up, Down or Migrate(n) fails, the records before
\* it are exactly the ones applied, the k-th was the last one handed to the
\* driver, the operation returns its error, and the marker rows are those of
\* the start with records 1..k-1 committed.
C3_StopOnFirstFailure ==
  (pc = "idle" /\ top \in {"Up", "Down", "Migrate"} /\ IsErr(lastApply.ret)) =>
    LET k == Len(applied) + 1 IN
      /\ k <= Len(plan)
      /\ applied = SubSeq(plan, 1, k - 1)
      /\ lastApply.rec = plan[k]
      /\ result = lastApply.ret
      /\ rows = Effect(pre, applied)
      /\ (k = 1 => Version(rows) = Version(pre))
      /\ (k > 1 /\ plan[1].direction = Up_ => Version(rows) = plan[k - 1].version)

\* C3 witness: Up failed at the second of three records.
C3_Witness ==
  /\ pc = "idle"
  /\ top = "Up"
  /\ lastApply.ret = "errExec"
  /\ Len(plan) = 3
  /\ Len(applied) = 1
  /\ Version(rows) = plan[1].version

\* C4: once Driver.Migrate has returned, no transaction it began is open.
C4_TxReleased == pc # "tx" => openTx = 0

\* C5: in graceful mode a signal that arrives while a record is being applied
\* lets that record's Driver.Migrate return before the operation halts.
C5_GracefulFinishesRecord ==
  (interrupts /\ pc = "dead" /\ result = "killed") => lastApply.ret # "running"

\* C6: Redo at version 0 returns an error from its rollback step, never
\* starts the reapply step and applies nothing.
C6_RedoAtZeroFails ==
  (top = "Redo" /\ Version(pre) = 0 /\ pc = "idle" /\ ~Crashed) =>
    /\ IsErr(result)
    /\ innerRes[2] = "none"
    /\ applied = <<>>

\* C7: when Redo's rollback step Migrate(-1) returns an error, the reapply
\* step is never started and Redo returns that error.
C7_RedoStopsOnRollbackError ==
  (top = "Redo" /\ IsErr(innerRes[1])) =>
    /\ innerRes[2] = "none"
    /\ phase = 1
    /\ pc = "idle"
    /\ result = innerRes[1]

\* C7 witness: the rollback step's Apply failed in its script.
C7_Witness ==
  /\ top = "Redo"
  /\ innerRes[1] = "errExec"
  /\ lastApply.rec.direction = Down_
  /\ result = "errExec"

RedoSucceeded ==
  /\ top = "Redo"
  /\ pc = "idle"
  /\ result = "nil"
  /\ innerRes = <<"nil", "nil">>
  /\ Version(pre) > 0

RedoReappliedSame ==
  /\ applied = <<Rec(Version(pre), Down_), Rec(Version(pre), Up_)>>
  /\ Version(rows) = Version(pre)

\* C8 as claimed: from any version v > 0, for every collection, a Redo whose
\* Applies all succeed rolls back Down v, applies Up v and ends at v.
C8_RedoReappliesAny == RedoSucceeded => RedoReappliedSame

\* C8 amended: the same when version v has both an Up and a Down record.
C8_RedoReappliesPair ==
  (RedoSucceeded /\ files[Version(pre)] = "pair") => RedoReappliedSame

\* C8 witness: Redo at a paired version below the latest Up record.
C8_Witness ==
  /\ RedoSucceeded
  /\ files[Version(pre)] = "pair"
  /\ RedoReappliedSame
  /\ ToLastFrom(files, Version(pre)) # <<>>

\* C9: Migrate(0) whose driver initialised returns nil, hands no record to
\* the driver and leaves the marker rows and CurrentVersion unchanged.
C9_MoveByZeroNoop ==
  (top = "Migrate" /\ relN = 0 /\ ~Crashed) =>
    /\ pc = "idle"
    /\ result = "nil"
    /\ plan = <<>>
    /\ applied = <<>>
    /\ lastApply = NoApply
    /\ rows = pre
    /\ Version(rows) = Version(pre)

\* C9 witness: Migrate(0) returned at a version with records to apply in
\* both directions.
C9_Witness ==
  /\ top = "Migrate"
  /\ relN = 0
  /\ result = "nil"
  /\ ToLastFrom(files, Version(rows)) # <<>>
  /\ ToFirstFrom(files, Version(rows)) # <<>>

\* C10: an Up right after an Up that returned nil computes the empty
\* sequence, hands no record to the driver, returns nil and leaves the marker
\* rows unchanged.
C10_UpIdempotent ==
  (top = "Up" /\ prev \in {"upApplied", "upNoop"} /\ ~Crashed) =>
    /\ pc = "idle"
    /\ result = "nil"
    /\ plan = <<>>
    /\ applied = <<>>
    /\ lastApply = NoApply
    /\ rows = pre

\* C10 witness: the second Up returned after a first Up that applied records.
C10_Witness ==
  /\ top = "Up"
  /\ prev = "upApplied"
  /\ pc = "idle"
  /\ result = "nil"
  /\ rows # {}

\* The two direct calls Up x, Down x both returned nil.
UpThenDown ==
  /\ top = "Direct"
  /\ pc = "idle"
  /\ Len(plan) = 2
  /\ plan[1].direction = Up_
  /\ plan[2] = Rec(plan[1].version, Down_)
  /\ applied = plan

\* C11: a successful Driver.Migrate of x's Up record followed by a successful
\* Driver.Migrate of x's Down record leaves the marker rows, hence
\* CurrentVersion, as they were before the Up.
C11_Reversible ==
  UpThenDown => (Version(rows) = Version(pre) /\ rows = pre)

\* C11 witness: x was above the version of a non-empty store, so the version
\* moved up and came back.
C11_Witness ==
  /\ UpThenDown
  /\ pre # {}
  /\ plan[1].version > Version(pre)
  /\ Version(rows) = Version(pre)

DownSucceeded == top = "Down" /\ pc = "idle" /\ result = "nil"

\* C12 as claimed: after a Down whose Applies all succeed CurrentVersion is
\* 0, for every collection.
C12_DownReachesZero == DownSucceeded => Version(rows) = 0

\* C12 amended: such a Down removes exactly the marker rows of the versions
\* that have a Down record, so CurrentVersion is 0 when every applied version
\* has one, and otherwise the highest applied version that has none.
C12_DownRemovesPaired ==
  DownSucceeded =>
    /\ rows = {x \in pre : files[x] # "pair"}
    /\ ((\A x \in pre : files[x] = "pair") => Version(rows) = 0)
    /\ ((\E x \in pre : files[x] # "pair") =>
          /\ Version(rows) \in pre
          /\ files[Version(rows)] # "pair"
          /\ \A x \in pre : files[x] # "pair" => x <= Version(rows))

\* C12 witness: Down rolled back two applied versions and reached 0.
C12_Witness ==
  /\ DownSucceeded
  /\ Cardinality(pre) >= 2
  /\ Len(applied) >= 2
  /\ Version(rows) = 0

\* C13: when Driver.Migrate fails and the Rollback of its transaction fails
\* too, what it returns is not the triggering error alone, as it is when the
\* Rollback succeeds: the caller can tell the rollback failure.
C13_RollbackFailureReported ==
  lastApply.rbErr => lastApply.ret \notin {"errMarker", "errExec"}

\* C14: when initialising the driver, loading the collection or reading the
\* version fails, the operation returns that error and does not crash.
C14_InitErrorReturned ==
  (IsErr(initRes) /\ top \in {"Up", "Down", "Migrate", "Redo", "Reset"}) =>
    /\ pc = "idle"
    /\ result = initRes
    /\ applied = <<>>

\* seq holds only records of direction d that the collection fs has.
RecordsOf(seq, fs, d) ==
  \A i \in 1..Len(seq) :
    /\ seq[i].direction = d
    /\ seq[i].version \in Versions
    /\ fs[seq[i].version] \in (IF d = Up_ THEN {"up", "pair"} ELSE {"pair"})

StrictlyAscending(seq) ==
  \A i \in 1..(Len(seq) - 1) : seq[i].version < seq[i + 1].version

StrictlyDescending(seq) ==
  \A i \in 1..(Len(seq) - 1) : seq[i].version > seq[i + 1].version

VersionsIn(seq) == {seq[i].version : i \in 1..Len(seq)}

IsPrefix(a, b) == Len(a) <= Len(b) /\ a = SubSeq(b, 1, Len(a))

\* C15: what Up sets out to apply at version v, and applies record by record,
\* holds only Up records of the collection, each above v, strictly ascending,
\* and leaves out no Up record of the collection above v; it is empty when v
\* is at or above the latest version.  When Up returns nil it has applied all
\* of it, and the marker rows are those before plus these versions.
C15_ToLatest ==
  (top = "Up" /\ initRes = "ok") =>
    LET v == Version(pre) IN
    /\ RecordsOf(plan, files, Up_)
    /\ \A i \in 1..Len(plan) : plan[i].version > v
    /\ StrictlyAscending(plan)
    /\ \A x \in Versions :
         (files[x] \in {"up", "pair"} /\ x > v) => x \in VersionsIn(plan)
    /\ ((\A x \in Versions : files[x] # "none" => x <= v) => plan = <<>>)
    /\ IsPrefix(applied, plan)
    /\ ((pc = "idle" /\ result = "nil") =>
          (applied = plan /\ rows = pre \cup VersionsIn(plan)))

\* C15 witness: Up at version 1 of a collection with the pair 1, no version 2
\* and a version 3 applied the Up record of 3 and returned nil.
C15_Witness ==
  /\ top = "Up"
  /\ pc = "idle"
  /\ result = "nil"
  /\ pre = {1}
  /\ files[1] = "pair"
  /\ files[2] = "none"
  /\ applied = <<Rec(3, Up_)>>
  /\ rows = {1, 3}

\* The records available to Migrate(n) at version v, in the order of n's
\* direction.
Available(fs, v, n) ==
  IF n > 0
  THEN Records(Ascending({x \in Versions : fs[x] \in {"up", "pair"} /\ x > v}), Up_)
  ELSE Records(Descending({x \in Versions : fs[x] = "pair" /\ x <= v}), Down_)

Magnitude(n) == IF n < 0 THEN 0 - n ELSE n

\* Versions of the records available to Migrate(n) at version v.
AvailableVersions(fs, v, n) ==
  IF n > 0
  THEN {x \in Versions : fs[x] \in {"up", "pair"} /\ x > v}
  ELSE {x \in Versions : fs[x] = "pair" /\ x <= v}

\* C16: Migrate(n), n # 0, with fewer than |n| records available in n's
\* direction applies available records only, in ascending order for n > 0 and
\* descending order for n < 0; when every Apply succeeds it has applied every
\* one of them and returns nil; an error it returns is an Apply's.
C16_RelativeMoveClamps ==
  (/\ top = "Migrate"
   /\ initRes = "ok"
   /\ relN # 0
   /\ Magnitude(relN) > Cardinality(AvailableVersions(files, Version(pre), relN))) =>
    LET avail == AvailableVersions(files, Version(pre), relN) IN
    /\ RecordsOf(applied, files, IF relN > 0 THEN Up_ ELSE Down_)
    /\ VersionsIn(applied) \subseteq avail
    /\ (IF relN > 0 THEN StrictlyAscending(applied)
                    ELSE StrictlyDescending(applied))
    /\ \A i \in 1..Len(applied) : \A x \in avail :
         (IF relN > 0 THEN x < applied[i].version ELSE x > applied[i].version)
           => x \in VersionsIn(SubSeq(applied, 1, i))
    /\ ((pc = "idle" /\ ~IsErr(lastApply.ret)) =>
          /\ result = "nil"
          /\ VersionsIn(applied) = avail
          /\ rows = (IF relN > 0 THEN pre \cup avail ELSE pre \ avail))
    /\ (IsErr(result) => result = lastApply.ret)

\* C16 witness: Migrate(-3) at version 3 of a collection with the pairs 1 and
\* 3 and an Up-only version 2 applied Down 3, then Down 1, and returned nil.
C16_Witness ==
  /\ top = "Migrate"
  /\ relN = 0 - 3
  /\ pc = "idle"
  /\ result = "nil"
  /\ files[2] = "up"
  /\ pre = {1, 2, 3}
  /\ applied = <<Rec(3, Down_), Rec(1, Down_)>>
  /\ rows = {2}

\* C17: CurrentVersion is the highest version whose Up was applied and not
\* rolled back since, which is the version of an Up record of the
\* collection, and 0 when there is none.
C17_MarkerInvariant ==
  /\ (schema = {} => Version(rows) = 0)
  /\ (schema # {} =>
        /\ Version(rows) = SetMax(schema)
        /\ files[Version(rows)] \in {"up", "pair"})

\* C17 witness: after a rollback the version is an applied one below a
\* version that was rolled back.
C17_Witness ==
  /\ pc = "idle"
  /\ lastApply.ret = "nil"
  /\ lastApply.rec.direction = Down_
  /\ Version(rows) >= 1
  /\ Version(rows) < lastApply.rec.version

\* C18: a failed script makes Driver.Migrate return an error, whatever the
\* kind of the backend's error, and the error carries line, column and
\* context only when the reported position is an offset inside the script.
C18_DecodingFallback ==
  /\ lastApply.ret # "panic"
  /\ (lastApply.ret = "errExec" /\ lastApply.msg = "positional" =>
        lastApply.offsetOk)

ResetSucceeded ==
  /\ top = "Reset"
  /\ pc = "idle"
  /\ result = "nil"
  /\ innerRes = <<"nil", "nil">>

\* C19: Reset starts Up only after Down returned nil; when Down returns an
\* error Reset returns it and Up is not started; when every Apply succeeds
\* the Down records at or below the starting version were applied in
\* descending order, then the Up records above the resulting version in
\* ascending order, and CurrentVersion is the collection's highest Up version.
C19_ResetDownThenUp ==
  /\ (top = "Reset" /\ phase = 2 => innerRes[1] = "nil")
  /\ (top = "Reset" /\ IsErr(innerRes[1]) =>
        /\ innerRes[2] = "none"
        /\ phase = 1
        /\ pc = "idle"
        /\ result = innerRes[1])
  /\ (ResetSucceeded =>
        LET downs == Available(files, Version(pre), 0 - 1)
            ups == Available(files, Version(Effect(pre, downs)), 1)
            upVersions == {x \in Versions : files[x] \in {"up", "pair"}}
        IN
        /\ applied = downs \o ups
        /\ Version(rows) = IF upVersions = {} THEN 0 ELSE SetMax(upVersions))

\* C19 witness: Reset rolled two versions back and applied them again.
C19_Witness ==
  /\ ResetSucceeded
  /\ Len(applied) = 4
  /\ applied[1].direction = Down_
  /\ applied[2].direction = Down_
  /\ applied[3].direction = Up_
  /\ Version(rows) = Version(pre)

\* C20: when Up, Down, Migrate, Version, Redo or Reset has returned, every
\* driver it initialised is closed.
C20_ConnectionsReleased ==
  (pc = "idle" /\ top \in {"Up", "Down", "Migrate", "Version", "Redo", "Reset"}) =>
    openConns = 0

====
